---------------------------- MODULE Spec2Model ----------------------------
(***************************************************************************)
(* A model of the nsls2.general Ansible collection plugins:                *)
(*   - GitHubFileReader (plugins/module_utils/github_file_reader.py and    *)
(*     its copy in plugins/modules/github_vars_facts.py),                  *)
(*   - the fact merge and regex filter of github_vars_facts.main,          *)
(*   - the varname wrapping of github_read_files_given_ext.main,           *)
(*   - the nsls2network_find filter (plugins/filter/nsls2network.py).      *)
(* Strings the code inspects character by character (paths, file names,    *)
(* keys, patterns, base64 text) are sequences of one-character strings.    *)
(* Python's None for an optional argument x is the empty sequence <<>>,    *)
(* a supplied value v is <<v>>.                                            *)
(***************************************************************************)
EXTENDS Integers, Sequences, FiniteSets, TLC

VARIABLES
    \* ---- GitHubFileReader and the HTTP session it drives
    contents,   \* self._contents
    rpc,        \* where get_tree stands: idle, branch, tree, blob, returned, raised
    args,       \* the arguments of the running get_tree call
    sha,        \* the tree sha read from the branch response
    tree,       \* j["tree"] of the tree-listing response
    files,      \* the list _get_tree returned
    idx,        \* position of the for loop of get_tree in files
    log,        \* the GET requests the session sent during this call, in order
    resps,      \* the status codes received for them, in order
    blobs,      \* the blob response bodies received during this call, in order
    outcome,    \* how the call ended: a return value or an exception
    ncalls,     \* number of get_tree calls made on this reader
    lastRet,    \* what the last successful earlier call returned
    entry,      \* self._contents as it was when the running call was entered
    \* ---- github_vars_facts.main after the fetch
    fpc, c, filters, fi, data, facts, filtered_keys,
    \* ---- github_read_files_given_ext.main
    epc, params, ec, ei, edata, efacts,
    \* ---- nsls2network filter
    table, npc, query, res

readerVars == <<contents, rpc, args, sha, tree, files, idx, log, resps, blobs,
                outcome, ncalls, lastRet, entry>>
factVars == <<fpc, c, filters, fi, data, facts, filtered_keys>>
extVars == <<epc, params, ec, ei, edata, efacts>>
netVars == <<table, npc, query, res>>
vars == <<readerVars, factVars, extVars, netVars>>

\* what a step of one plugin leaves alone
notReader == <<factVars, extVars, netVars>>
notFacts == <<readerVars, extVars, netVars>>
notExt == <<readerVars, factVars, netVars>>
notNet == <<readerVars, factVars, extVars>>

-----------------------------------------------------------------------------
(* Bounds of the model *)

MaxCalls == 2       \* get_tree calls on one reader
MaxEntries == 2     \* entries of a tree listing
MaxFiles == 2       \* files in a fetched list
MaxFilters == 2     \* patterns in the filters parameter

-----------------------------------------------------------------------------
(* Python values *)

None == <<>>
Some(v) == <<v>>
IsNone(x) == x = <<>>
Val(x) == x[1]

\* str.startswith
StartsWith(s, p) == Len(p) <= Len(s) /\ SubSeq(s, 1, Len(p)) = p

\* str(b) of a bool, as an f-string formats it
PyStr(b) == IF b THEN "True" ELSE "False"

\* bool(x) of an optional bool
PyBool(x) == IF IsNone(x) THEN FALSE ELSE Val(x)

IsPrefix(s, t) == Len(s) <= Len(t) /\ SubSeq(t, 1, Len(s)) = s

\* the sequences over S of length at most n without a repeated element
RECURSIVE DistinctSeqs(_, _)
DistinctSeqs(S, n) ==
    IF n = 0 THEN {<<>>}
    ELSE LET shorter == DistinctSeqs(S, n - 1)
         IN shorter \cup
            {Append(s, x) : <<s, x>> \in
                {p \in shorter \X S : \A i \in 1..Len(p[1]) : p[1][i] # p[2]}}

\* the sequences over S of length at most n
RECURSIVE SeqsUpTo(_, _)
SeqsUpTo(S, n) ==
    IF n = 0 THEN {<<>>}
    ELSE LET shorter == SeqsUpTo(S, n - 1)
         IN shorter \cup {Append(s, x) : <<s, x>> \in shorter \X S}

-----------------------------------------------------------------------------
(* base64.b64decode (validate=False), as binascii.a2b_base64 computes it *)

B64Alphabet ==
    << "A","B","C","D","E","F","G","H","I","J","K","L","M","N","O","P",
       "Q","R","S","T","U","V","W","X","Y","Z",
       "a","b","c","d","e","f","g","h","i","j","k","l","m","n","o","p",
       "q","r","s","t","u","v","w","x","y","z",
       "0","1","2","3","4","5","6","7","8","9","+","/" >>

\* the 6-bit value of a character, 64 for a character outside the alphabet
B64Value(ch) ==
    IF \E i \in 1..64 : B64Alphabet[i] = ch
    THEN (CHOOSE i \in 1..64 : B64Alphabet[i] = ch) - 1
    ELSE 64

\* The decoder's loop from position i with quad_pos, leftchar, pads and the
\* bytes produced so far. A pad sequence that completes a quad ends the input;
\* characters outside the alphabet are discarded; leftover characters of an
\* incomplete quad are an error.
RECURSIVE B64Loop(_, _, _, _, _, _)
B64Loop(s, i, quad_pos, leftchar, pads, out) ==
    IF i > Len(s)
    THEN [ok |-> quad_pos = 0, bytes |-> IF quad_pos = 0 THEN out ELSE <<>>]
    ELSE IF s[i] = "="
    THEN IF quad_pos >= 2 /\ quad_pos + pads + 1 >= 4
         THEN [ok |-> TRUE, bytes |-> out]
         ELSE B64Loop(s, i + 1, quad_pos, leftchar,
                      IF quad_pos >= 2 THEN pads + 1 ELSE pads, out)
    ELSE LET v == B64Value(s[i]) IN
         IF v >= 64
         THEN B64Loop(s, i + 1, quad_pos, leftchar, pads, out)
         ELSE CASE quad_pos = 0 -> B64Loop(s, i + 1, 1, v, 0, out)
                [] quad_pos = 1 ->
                     B64Loop(s, i + 1, 2, v % 16, 0,
                             Append(out, (leftchar * 4 + v \div 16) % 256))
                [] quad_pos = 2 ->
                     B64Loop(s, i + 1, 3, v % 4, 0,
                             Append(out, (leftchar * 16 + v \div 4) % 256))
                [] quad_pos = 3 ->
                     B64Loop(s, i + 1, 0, 0, 0,
                             Append(out, (leftchar * 64 + v) % 256))

b64decode(s) == B64Loop(s, 1, 0, 0, 0, <<>>)

-----------------------------------------------------------------------------
(* The remote repository and the HTTP transport, as the session sees them *)

\* status codes a GET can answer with
Statuses == {200, 404, 500}

\* tree shas a branch can point at
Shas == {"t1", "t2"}

\* the branch the callers ask for (the modules' default)
Branches == {"main"}

\* entries a tree listing can hold: a file below a/, the directory a itself,
\* a file whose path merely begins with the letter a, and a file elsewhere
\* with the content of the first (a blob url names the content, so two
\* files of equal content list the same url)
TreeEntries ==
    { [path |-> <<"a", "/", "x">>, type |-> "blob", url |-> "u1"],
      [path |-> <<"a">>,           type |-> "tree", url |-> "u2"],
      [path |-> <<"a", "b">>,      type |-> "blob", url |-> "u3"],
      [path |-> <<"c">>,           type |-> "blob", url |-> "u1"] }

Listings == DistinctSeqs(TreeEntries, MaxEntries)

\* bodies a blob GET can answer with: "ABC" and "A" in base64 (the second
\* with the trailing newline the API adds), a body in another encoding,
\* a body without content, and base64 text with its padding cut off
BlobBodies ==
    { [content |-> <<"Q", "U", "J", "D">>, encoding |-> "base64"],
      [content |-> <<"Q", "Q", "=", "=", "\n">>, encoding |-> "base64"],
      [content |-> <<"A", "B", "C">>, encoding |-> "none"],
      [encoding |-> "none"],
      [content |-> <<"Q", "Q">>, encoding |-> "base64"] }

\* path arguments of get_tree: not supplied, "a", "a/"
PathArgs == {None, Some(<<"a">>), Some(<<"a", "/">>)}

\* recursive arguments of get_tree: not supplied, True, False
RecursiveArgs == {None, Some(TRUE), Some(FALSE)}

NoOutcome == [kind |-> "none", status |-> 0, value |-> <<>>]
Returned(v) == [kind |-> "return", status |-> 0, value |-> v]
Raised(kind, status) == [kind |-> kind, status |-> status, value |-> <<>>]

-----------------------------------------------------------------------------
(* GitHubFileReader *)

\* requests.Response.raise_for_status: HTTPError for 4xx and 5xx
raise_for_status(status) == status >= 400 /\ status < 600

\* a faulty _get_json that leaves out raise_for_status
_get_json_unchecked(status, body) == [raised |-> FALSE, status |-> status, j |-> body]

\* _get_json: the GET was sent and answered with (status, body); the result
\* is the HTTPError raised or the decoded body
_get_json(status, body) ==
    IF raise_for_status(status)
    THEN [raised |-> TRUE, status |-> status, j |-> <<>>]
    ELSE [raised |-> FALSE, status |-> status, j |-> body]

\* the URL _get_branch_sha asks for
BranchUrl(branch) == [kind |-> "branch", target |-> branch, query |-> <<>>]

\* the URL _get_tree asks for: .../git/trees/{sha}?recursive=f{_recursive}
TreeUrl(s, recursive) ==
    LET _recursive == PyBool(recursive)
    IN [kind |-> "tree", target |-> s,
        query |-> <<[name |-> "recursive", value |-> "f" \o PyStr(_recursive)]>>]

\* the URL _get_blob asks for: the entry's url as listed
BlobUrl(url) == [kind |-> "blob", target |-> url, query |-> <<>>]

\* _get_tree after its GET: the entries kept for the path argument
_get_tree(j_tree, path) ==
    IF ~IsNone(path)
    THEN SelectSeq(j_tree, LAMBDA leaf : StartsWith(leaf.path, Val(path)))
    ELSE j_tree

\* a faulty _process_file that takes content in another encoding as it is
_process_file_plain(cont, j, name) ==
    IF "content" \in DOMAIN j
    THEN [raised |-> "",
          contents |-> Append(cont,
              [content |-> IF j.encoding = "base64" THEN b64decode(j.content).bytes
                           ELSE j.content,
               name |-> Val(name)])]
    ELSE [raised |-> "", contents |-> cont]

\* a faulty _process_file that appends the base64 text instead of the bytes
_process_file_raw(cont, j, name) ==
    IF "content" \in DOMAIN j
    THEN IF j.encoding = "base64"
         THEN IF b64decode(j.content).ok
              THEN [raised |-> "",
                    contents |-> Append(cont, [content |-> j.content, name |-> Val(name)])]
              ELSE [raised |-> "binascii.Error", contents |-> cont]
         ELSE [raised |-> "RuntimeError", contents |-> cont]
    ELSE [raised |-> "", contents |-> cont]

\* a faulty _process_file that starts the list anew instead of appending
_process_file_reset(cont, j, name) ==
    IF "content" \in DOMAIN j
    THEN IF j.encoding = "base64"
         THEN IF b64decode(j.content).ok
              THEN [raised |-> "",
                    contents |-> <<[content |-> b64decode(j.content).bytes,
                                    name |-> Val(name)]>>]
              ELSE [raised |-> "binascii.Error", contents |-> cont]
         ELSE [raised |-> "RuntimeError", contents |-> cont]
    ELSE [raised |-> "", contents |-> cont]

\* _process_file: the new self._contents, or the exception raised
_process_file(cont, j, name) ==
    IF "content" \in DOMAIN j
    THEN IF j.encoding = "base64"
         THEN LET _content == b64decode(j.content)
                  n == IF IsNone(name)
                       THEN IF "name" \in DOMAIN j THEN j.name ELSE <<>>
                       ELSE Val(name)
              IN IF _content.ok
                 THEN [raised |-> "",
                       contents |-> Append(cont, [content |-> _content.bytes, name |-> n])]
                 ELSE [raised |-> "binascii.Error", contents |-> cont]
         ELSE [raised |-> "RuntimeError", contents |-> cont]
    ELSE [raised |-> "", contents |-> cont]

\* a faulty loop that fetches entries of every kind
NextFetched_any(fs, i) == IF i <= Len(fs) THEN i ELSE 0

\* the for loop of get_tree: the next position at or after i whose entry is
\* fetched, or 0 when the loop is over
NextFetched(fs, i) ==
    IF \E k \in i..Len(fs) : fs[k].type = "blob"
    THEN CHOOSE k \in i..Len(fs) :
            fs[k].type = "blob" /\ \A m \in i..(k - 1) : fs[m].type # "blob"
    ELSE 0

\* get_tree goes on from position i of files fs with contents cont: it sends
\* the next blob GET, or returns self._contents
LoopFrom(fs, i, cont) ==
    LET k == NextFetched(fs, i) IN
    IF k = 0
    THEN /\ rpc' = "returned"
         /\ outcome' = Returned(cont)
         /\ idx' = Len(fs) + 1
         /\ log' = log
    ELSE /\ rpc' = "blob"
         /\ outcome' = outcome
         /\ idx' = k
         /\ log' = Append(log, BlobUrl(fs[k].url))

\* get_tree is called: _get_branch_sha sends the branch GET
GetTreeCall(branch, path, recursive) ==
    /\ rpc = "idle"
    /\ ncalls < MaxCalls
    /\ ncalls' = ncalls + 1
    /\ args' = [branch |-> branch, path |-> path, recursive |-> recursive]
    /\ log' = <<BranchUrl(branch)>>
    /\ resps' = <<>>
    /\ blobs' = <<>>
    /\ sha' = ""
    /\ tree' = <<>>
    /\ files' = <<>>
    /\ idx' = 0
    /\ outcome' = NoOutcome
    /\ rpc' = "branch"
    /\ lastRet' = IF outcome.kind = "return" THEN outcome.value ELSE lastRet
    /\ entry' = contents
    /\ UNCHANGED contents
    /\ UNCHANGED notReader

\* the branch GET is answered; on success _get_tree sends the tree GET
BranchResponse(status, s) ==
    /\ rpc = "branch"
    /\ resps' = Append(resps, status)
    /\ LET r == _get_json(status, s) IN
       IF r.raised
       THEN /\ rpc' = "raised"
            /\ outcome' = Raised("HTTPError", r.status)
            /\ UNCHANGED <<sha, log>>
       ELSE /\ rpc' = "tree"
            /\ sha' = r.j
            /\ log' = Append(log, TreeUrl(r.j, args.recursive))
            /\ outcome' = outcome
    /\ UNCHANGED <<contents, args, tree, files, idx, blobs, ncalls, lastRet, entry>>
    /\ UNCHANGED notReader

\* the tree GET is answered; on success the loop over the kept entries starts
TreeResponse(status, listing) ==
    /\ rpc = "tree"
    /\ resps' = Append(resps, status)
    /\ LET r == _get_json(status, listing) IN
       IF r.raised
       THEN /\ rpc' = "raised"
            /\ outcome' = Raised("HTTPError", r.status)
            /\ UNCHANGED <<tree, files, idx, log>>
       ELSE /\ tree' = r.j
            /\ files' = _get_tree(r.j, args.path)
            /\ LoopFrom(files', 1, contents)
    /\ UNCHANGED <<contents, args, sha, blobs, ncalls, lastRet, entry>>
    /\ UNCHANGED notReader

\* a blob GET is answered; on success _process_file handles the body and the
\* loop goes on
BlobResponse(status, body) ==
    /\ rpc = "blob"
    /\ resps' = Append(resps, status)
    /\ LET r == _get_json(status, body) IN
       IF r.raised
       THEN /\ rpc' = "raised"
            /\ outcome' = Raised("HTTPError", r.status)
            /\ UNCHANGED <<contents, blobs, idx, log>>
       ELSE LET p == _process_file(contents, r.j, Some(files[idx].path)) IN
            /\ blobs' = Append(blobs, r.j)
            /\ IF p.raised # ""
               THEN /\ rpc' = "raised"
                    /\ outcome' = Raised(p.raised, 0)
                    /\ UNCHANGED <<contents, idx, log>>
               ELSE /\ contents' = p.contents
                    /\ LoopFrom(files, idx + 1, p.contents)
    /\ UNCHANGED <<args, sha, tree, files, ncalls, lastRet, entry>>
    /\ UNCHANGED notReader

\* the caller has the return value or the exception; the reader is free again
CallOver ==
    /\ rpc \in {"returned", "raised"}
    /\ rpc' = "idle"
    /\ UNCHANGED <<contents, args, sha, tree, files, idx, log, resps, blobs,
                   outcome, ncalls, lastRet, entry>>
    /\ UNCHANGED notReader

\* get_content
get_content == contents

-----------------------------------------------------------------------------
(* Python dicts (insertion ordered): sequences of [k, v] with distinct keys *)

Keys(d) == {d[i].k : i \in 1..Len(d)}
KeyList(d) == [i \in 1..Len(d) |-> d[i].k]
Get(d, key) == (CHOOSE i \in 1..Len(d) : d[i].k = key)
Lookup(d, key) == d[Get(d, key)].v

\* d[key] = value: an existing key keeps its place
DictSet(d, key, value) ==
    IF key \in Keys(d)
    THEN [d EXCEPT ![Get(d, key)] = [k |-> key, v |-> value]]
    ELSE Append(d, [k |-> key, v |-> value])

\* d.update(m)
RECURSIVE DictUpdate(_, _)
DictUpdate(d, m) ==
    IF m = <<>> THEN d
    ELSE DictUpdate(DictSet(d, Head(m).k, Head(m).v), Tail(m))

-----------------------------------------------------------------------------
(* os.path and str helpers *)

UpperLetters == SubSeq(B64Alphabet, 1, 26)
LowerLetters == SubSeq(B64Alphabet, 27, 52)

\* str.lower
LowerChar(ch) ==
    IF \E i \in 1..26 : UpperLetters[i] = ch
    THEN LowerLetters[CHOOSE i \in 1..26 : UpperLetters[i] = ch]
    ELSE ch
lower(s) == [i \in 1..Len(s) |-> LowerChar(s[i])]

\* str.rfind of one character, 0 when absent
rfind(s, ch) ==
    IF \E i \in 1..Len(s) : s[i] = ch
    THEN CHOOSE i \in 1..Len(s) : s[i] = ch /\ \A m \in (i + 1)..Len(s) : s[m] # ch
    ELSE 0

\* os.path.splitext(p)[1]: from the last dot of the last path component,
\* unless only dots precede it there
splitext_ext(p) ==
    LET sepIndex == rfind(p, "/")
        dotIndex == rfind(p, ".")
    IN IF dotIndex > sepIndex
          /\ \E m \in (sepIndex + 1)..(dotIndex - 1) : p[m] # "."
       THEN SubSeq(p, dotIndex, Len(p))
       ELSE <<>>

\* os.path.basename
basename(p) == SubSeq(p, rfind(p, "/") + 1, Len(p))

-----------------------------------------------------------------------------
(* re.match for patterns made of literal characters, ".", "^" and "$" *)

RECURSIVE MatchAt(_, _, _, _)
MatchAt(pat, i, s, j) ==
    IF i > Len(pat) THEN TRUE
    ELSE CASE pat[i] = "^" -> j = 1 /\ MatchAt(pat, i + 1, s, j)
           [] pat[i] = "$" -> j = Len(s) + 1 /\ MatchAt(pat, i + 1, s, j)
           [] pat[i] = "." -> j <= Len(s) /\ s[j] # "\n" /\ MatchAt(pat, i + 1, s, j + 1)
           [] OTHER -> j <= Len(s) /\ s[j] = pat[i] /\ MatchAt(pat, i + 1, s, j + 1)

\* re.search tries every start; re.match tries the start of the string only
re_search(pat, s) == \E j \in 1..(Len(s) + 1) : MatchAt(pat, 1, s, j)
re_match(pat, s) == MatchAt(pat, 1, s, 1)

-----------------------------------------------------------------------------
(* github_vars_facts.main, from the fetched list c on *)

Scalar(n) == [scalar |-> n]
Item(key, value) == [k |-> key, v |-> value]
MapDoc(items) == [top |-> "mapping", items |-> items]
NullDoc == [top |-> "null", items |-> <<>>]

\* the files a fetch can have returned: name and document text. The text is
\* given by its top-level items in document order; "null" is a document
\* that is no mapping.
FetchedFiles ==
    { [name |-> <<"a", ".", "y", "a", "m", "l">>,
       content |-> MapDoc(<<Item(<<"x">>, Scalar(1))>>)],
      [name |-> <<"b", ".", "J", "S", "O", "N">>,
       content |-> MapDoc(<<Item(<<"x">>, Scalar(2)), Item(<<"y">>, Scalar(3))>>)],
      [name |-> <<"d", "/", "c", ".", "y", "m", "l">>,
       content |-> MapDoc(<<Item(<<"y">>, [a |-> 1]), Item(<<"x", "y">>, Scalar(1))>>)],
      [name |-> <<"e", ".", "j", "s", "o", "n">>,
       content |-> MapDoc(<<Item(<<"y">>, [b |-> 2])>>)],
      [name |-> <<"f", ".", "t", "x", "t">>,
       content |-> MapDoc(<<Item(<<"x">>, Scalar(3)), Item(<<"z">>, Scalar(3))>>)],
      [name |-> <<".", "y", "a", "m", "l">>,
       content |-> MapDoc(<<Item(<<"z">>, Scalar(1))>>)],
      [name |-> <<"g", ".", "y", "a", "m", "l">>,
       content |-> NullDoc] }

\* the regular expressions the filters parameter can hold
Patterns == { <<"^", "y">>, <<"x">>, <<".", "y">>, <<"y">> }

\* yaml.safe_load / json.loads: the Python object of a document; a mapping
\* becomes a dict (a repeated key keeps its last value), null becomes None
Parse(content) ==
    IF content.top = "mapping" THEN Some(DictUpdate(<<>>, content.items)) ELSE None
yaml_safe_load(content) == Parse(content)
json_loads(content) == Parse(content)

\* a faulty merge in which the value already in data wins
UpdateFirstWins(d, obj) ==
    IF IsNone(obj) THEN [raised |-> "TypeError", d |-> d]
    ELSE [raised |-> "", d |-> DictUpdate(Val(obj), d)]

\* dict.update with the loaded object: TypeError for None
Update(d, obj) ==
    IF IsNone(obj) THEN [raised |-> "TypeError", d |-> d]
    ELSE [raised |-> "", d |-> DictUpdate(d, Val(obj))]

\* one pass of the loop over c (lines 206-210): both ifs, in order
MergeOne(d, n) ==
    LET ext == lower(splitext_ext(n.name))
        y == IF ext \in {<<".", "y", "a", "m", "l">>, <<".", "y", "m", "l">>}
             THEN Update(d, yaml_safe_load(n.content))
             ELSE [raised |-> "", d |-> d]
    IN IF y.raised # "" THEN y
       ELSE IF ext \in {<<".", "j", "s", "o", "n">>}
            THEN Update(y.d, json_loads(n.content))
            ELSE y

\* the filter loops (lines 214-218): for f in filters, for key in data
RECURSIVE FilterKeys(_, _, _, _)
FilterKeys(f, d, i, acc) ==
    IF i > Len(d) THEN acc
    ELSE FilterKeys(f, d, i + 1,
                    IF re_match(f, d[i].k) THEN DictSet(acc, d[i].k, d[i].v) ELSE acc)

RECURSIVE FilterAll(_, _, _, _)
FilterAll(fs, d, i, acc) ==
    IF i > Len(fs) THEN acc
    ELSE FilterAll(fs, d, i + 1, FilterKeys(fs[i], d, 1, acc))

\* a faulty filter that uses re.search
FilteredDataSearch(fs, d) ==
    SelectSeq(d, LAMBDA it : \E i \in 1..Len(fs) : re_search(fs[i], it.k))

FilteredData(fs, d) == FilterAll(fs, d, 1, <<>>)

\* line 220: [k for k in data if k not in filtered_data]
FilteredKeys(d, fd) == KeyList(SelectSeq(d, LAMBDA it : it.k \notin Keys(fd)))

\* the loop body for file c[fi]
MergeFile ==
    /\ fpc = "merge"
    /\ fi <= Len(c)
    /\ LET r == MergeOne(data, c[fi]) IN
       IF r.raised # ""
       THEN /\ fpc' = "raised"
            /\ UNCHANGED <<data, fi>>
       ELSE /\ data' = r.d
            /\ fi' = fi + 1
            /\ fpc' = fpc
    /\ UNCHANGED <<c, filters, facts, filtered_keys>>
    /\ UNCHANGED notFacts

\* lines 212-226: the loop is over; filter if asked to, and exit_json
FactsExit ==
    /\ fpc = "merge"
    /\ fi > Len(c)
    /\ IF Len(filters) > 0
       THEN LET filtered_data == FilteredData(filters, data) IN
            /\ facts' = filtered_data
            /\ filtered_keys' = FilteredKeys(data, filtered_data)
       ELSE /\ facts' = data
            /\ filtered_keys' = <<>>
    /\ fpc' = "exit"
    /\ UNCHANGED <<c, filters, fi, data>>
    /\ UNCHANGED notFacts

-----------------------------------------------------------------------------
(* github_read_files_given_ext.main *)

\* module_args (lines 73-81): the parameters the module declares, and those
\* it requires
ExtArgSpec == {"owner", "repo", "extensions", "varname", "branch", "path", "token"}
ExtRequired == {"owner", "repo", "extensions", "varname"}

\* the parameter names a task can supply
Supplied ==
    { ExtRequired,
      ExtRequired \cup {"path"},
      ExtRequired \cup {"prefix"},
      ExtRequired \ {"varname"} }

VarNames == { <<"v">>, <<"w">> }
Prefixes == { <<"p", "_">> }

ExtensionLists ==
    { << <<".", "t", "x", "t">> >>,
      << <<".", "t", "x", "t">>, <<".", "y", "a", "m", "l">> >>,
      << <<".", "T", "X", "T">> >> }

\* the files a fetch can have returned: name and decoded bytes
ExtFiles ==
    { [name |-> <<"d", "/", "a", ".", "t", "x", "t">>, content |-> <<65>>],
      [name |-> <<"e", "/", "a", ".", "t", "x", "t">>, content |-> <<66>>],
      [name |-> <<"b", ".", "T", "X", "T">>, content |-> <<67>>],
      [name |-> <<"c", ".", "y", "a", "m", "l">>, content |-> <<65, 66>>] }

InSeq(x, s) == \E i \in 1..Len(s) : s[i] = x

\* AnsibleModule(argument_spec=module_args): a parameter the module does not
\* declare, or a required one that is missing, fails the module
ArgsAccepted(supplied) == supplied \subseteq ExtArgSpec /\ ExtRequired \subseteq supplied

\* line 100: data = {varname: {}}
ExtDataInit(varname) == <<Item(varname, <<>>)>>

\* a faulty loop body that stores at the top level instead of under varname
ExtOne_flat(d, varname, extensions, n) ==
    IF InSeq(lower(splitext_ext(n.name)), extensions)
    THEN DictSet(d, basename(n.name), n.content)
    ELSE d

\* lines 102-103 for one file n
ExtOne(d, varname, extensions, n) ==
    IF InSeq(lower(splitext_ext(n.name)), extensions)
    THEN DictSet(d, varname, DictSet(Lookup(d, varname), basename(n.name), n.content))
    ELSE d

\* lines 73-83 and 100: the parameters are checked and data is set up
ExtStart ==
    /\ epc = "start"
    /\ IF ArgsAccepted(params.supplied)
       THEN /\ epc' = "loop"
            /\ edata' = ExtDataInit(params.varname)
            /\ ei' = 1
       ELSE /\ epc' = "failed"
            /\ UNCHANGED <<edata, ei>>
    /\ UNCHANGED <<params, ec, efacts>>
    /\ UNCHANGED notExt

\* the loop body for file ec[ei]
ExtFile ==
    /\ epc = "loop"
    /\ ei <= Len(ec)
    /\ edata' = ExtOne(edata, params.varname, params.extensions, ec[ei])
    /\ ei' = ei + 1
    /\ UNCHANGED <<epc, params, ec, efacts>>
    /\ UNCHANGED notExt

\* line 105: exit_json(ansible_facts=data)
ExtExit ==
    /\ epc = "loop"
    /\ ei > Len(ec)
    /\ efacts' = edata
    /\ epc' = "exit"
    /\ UNCHANGED <<params, ec, ei, edata>>
    /\ UNCHANGED notExt

-----------------------------------------------------------------------------
(* The nsls2network_find filter *)

NetNames == {"xf", "lob"}
SubnetNames == {"sci", "cam"}

\* CIDR blocks a subnet of the table can have: two disjoint /30, the /29
\* holding both, and a /24 elsewhere
Cidrs ==
    { [addr |-> <<10, 0, 0, 0>>, plen |-> 30],
      [addr |-> <<10, 0, 0, 4>>, plen |-> 30],
      [addr |-> <<10, 0, 0, 0>>, plen |-> 29],
      [addr |-> <<10, 0, 1, 0>>, plen |-> 24] }

\* the addresses handed to the filter; the last two are malformed
SearchNets ==
    { <<10, 0, 0, 3>>, <<10, 0, 0, 4>>, <<10, 0, 1, 255>>, <<10, 0, 2, 0>>,
      <<10, 0, 0>>, <<10, 0, 0, 256>> }

Modes == {None, Some("net"), Some("subnet"), Some("full")}

\* the nested dicts nsls2network can be: net -> subnet -> {"subnet": cidr}
SubnetDicts ==
    { d \in DistinctSeqs([subnet : SubnetNames, cidr : Cidrs], Cardinality(SubnetNames)) :
        \A i, j \in 1..Len(d) : i # j => d[i].subnet # d[j].subnet }
NetworkTables ==
    { t \in DistinctSeqs([net : NetNames, subnets : SubnetDicts], Cardinality(NetNames)) :
        \A i, j \in 1..Len(t) : i # j => t[i].net # t[j].net }

\* ipaddress.IPv4Address(text): four decimal octets
WellFormed(a) == Len(a) = 4 /\ \A i \in 1..4 : a[i] \in 0..255
AddrInt(a) == ((a[1] * 256 + a[2]) * 256 + a[3]) * 256 + a[4]

\* IPv4Address in IPv4Network
InNetwork(a, cidr) ==
    AddrInt(a) \div (2 ^ (32 - cidr.plen)) = AddrInt(cidr.addr) \div (2 ^ (32 - cidr.plen))

\* the (net, subnet) pairs in the order the two for loops of find visit them
RECURSIVE Visits(_)
Visits(t) ==
    IF t = <<>> THEN <<>>
    ELSE [i \in 1..Len(Head(t).subnets) |->
            [net |-> Head(t).net, subnet |-> Head(t).subnets[i].subnet,
             cidr |-> Head(t).subnets[i].cidr]] \o Visits(Tail(t))

PyNone == [kind |-> "None"]
PyDict(net, subnet) == [kind |-> "dict", net |-> net, subnet |-> subnet]
PyStrVal(text) == [kind |-> "str", value |-> text]
PyRaise(what) == [kind |-> "raise", value |-> what]

\* a faulty find that gives up after the first net
find_first_net_only(t, searchnet) ==
    LET v == IF t = <<>> THEN <<>> ELSE Visits(<<Head(t)>>) IN
    IF v = <<>> THEN PyNone
    ELSE IF ~WellFormed(searchnet) THEN PyRaise("AddressValueError")
    ELSE IF \E i \in 1..Len(v) : InNetwork(searchnet, v[i].cidr)
    THEN LET i == CHOOSE i \in 1..Len(v) :
                    /\ InNetwork(searchnet, v[i].cidr)
                    /\ \A m \in 1..(i - 1) : ~InNetwork(searchnet, v[m].cidr)
         IN PyDict(v[i].net, v[i].subnet)
    ELSE PyNone

\* find(searchnet): the first pair visited whose block holds the address.
\* The address is parsed at each test, so a malformed one raises at the first.
find(t, searchnet) ==
    LET v == Visits(t) IN
    IF v = <<>> THEN PyNone
    ELSE IF ~WellFormed(searchnet) THEN PyRaise("AddressValueError")
    ELSE IF \E i \in 1..Len(v) : InNetwork(searchnet, v[i].cidr)
    THEN LET i == CHOOSE i \in 1..Len(v) :
                    /\ InNetwork(searchnet, v[i].cidr)
                    /\ \A m \in 1..(i - 1) : ~InNetwork(searchnet, v[m].cidr)
         IN PyDict(v[i].net, v[i].subnet)
    ELSE PyNone

\* FilterModule.find(searchnet, mode)
FilterModule_find(t, searchnet, mode) ==
    LET r == find(t, searchnet) IN
    IF r.kind = "raise" THEN r
    ELSE IF r.kind # "None"
    THEN IF mode = Some("net") THEN PyStrVal(r.net)
         ELSE IF mode = Some("subnet") THEN PyStrVal(r.subnet)
         ELSE r
    ELSE PyNone

\* a template applies nsls2network_find
Find(searchnet, mode) ==
    /\ npc' = "called"
    /\ query' = [searchnet |-> searchnet, mode |-> mode]
    /\ res' = FilterModule_find(table, searchnet, mode)
    /\ UNCHANGED table
    /\ UNCHANGED notNet

-----------------------------------------------------------------------------
(* Specifications, one per plugin *)

ReaderInit ==
    /\ contents = <<>>
    /\ rpc = "idle"
    /\ args = [branch |-> "main", path |-> None, recursive |-> None]
    /\ sha = ""
    /\ tree = <<>>
    /\ files = <<>>
    /\ idx = 0
    /\ log = <<>>
    /\ resps = <<>>
    /\ blobs = <<>>
    /\ outcome = NoOutcome
    /\ ncalls = 0
    /\ lastRet = <<>>
    /\ entry = <<>>

FactsIdle ==
    /\ fpc = "off"
    /\ c = <<>>
    /\ filters = <<>>
    /\ fi = 1
    /\ data = <<>>
    /\ facts = <<>>
    /\ filtered_keys = <<>>

ExtIdle ==
    /\ epc = "off"
    /\ params = [supplied |-> {}, varname |-> <<>>, prefix |-> None, extensions |-> <<>>]
    /\ ec = <<>>
    /\ ei = 1
    /\ edata = <<>>
    /\ efacts = <<>>

NetIdle ==
    /\ table = <<>>
    /\ npc = "off"
    /\ query = [searchnet |-> <<>>, mode |-> None]
    /\ res = PyNone

\* a fresh GitHubFileReader
InitReader == ReaderInit /\ FactsIdle /\ ExtIdle /\ NetIdle

NextReader ==
    \/ \E b \in Branches, p \in PathArgs, r \in RecursiveArgs : GetTreeCall(b, p, r)
    \/ \E st \in Statuses, s \in Shas : BranchResponse(st, s)
    \/ \E st \in Statuses, l \in Listings : TreeResponse(st, l)
    \/ \E st \in Statuses, b \in BlobBodies : BlobResponse(st, b)
    \/ CallOver

SpecReader == InitReader /\ [][NextReader]_vars

\* github_vars_facts.main with the list c fetched and the filters given
InitFacts ==
    /\ ReaderInit /\ ExtIdle /\ NetIdle
    /\ fpc = "merge"
    /\ c \in SeqsUpTo(FetchedFiles, MaxFiles)
    /\ filters \in SeqsUpTo(Patterns, MaxFilters)
    /\ fi = 1
    /\ data = <<>>
    /\ facts = <<>>
    /\ filtered_keys = <<>>

NextFacts ==
    \/ MergeFile
    \/ FactsExit

SpecFacts == InitFacts /\ [][NextFacts]_vars

\* github_read_files_given_ext.main with the task's parameters and the list
\* fetched
InitExt ==
    /\ ReaderInit /\ FactsIdle /\ NetIdle
    /\ epc = "start"
    /\ params \in { [supplied |-> s, varname |-> v, prefix |-> p, extensions |-> e] :
                      s \in Supplied, v \in VarNames,
                      p \in {None} \cup {Some(x) : x \in Prefixes},
                      e \in ExtensionLists }
    /\ ("prefix" \in params.supplied) = ~IsNone(params.prefix)
    /\ ec \in SeqsUpTo(ExtFiles, MaxFiles)
    /\ ei = 1
    /\ edata = <<>>
    /\ efacts = <<>>

NextExt ==
    \/ ExtStart
    \/ ExtFile
    \/ ExtExit

SpecExt == InitExt /\ [][NextExt]_vars

\* the filter plugin with nsls2network loaded
InitNet ==
    /\ ReaderInit /\ FactsIdle /\ ExtIdle
    /\ table \in NetworkTables
    /\ npc = "loaded"
    /\ query = [searchnet |-> <<>>, mode |-> None]
    /\ res = PyNone

NextNet ==
    \E a \in SearchNets, m \in Modes : Find(a, m)

SpecNet == InitNet /\ [][NextNet]_vars

-----------------------------------------------------------------------------
(* Properties of GitHubFileReader, checked under SpecReader *)

\* a status outside the success range
NonSuccess(status) == status \notin 200..299

\* get_tree has ended
CallEnded == rpc \in {"returned", "raised", "idle"} /\ ncalls > 0

\* the listing entries get_tree is to fetch: kind blob and, with a path
\* argument, a path that starts with it
RetainedBlobs(listing, path) ==
    SelectSeq(listing, LAMBDA e :
        e.type = "blob" /\ (IsNone(path) \/ StartsWith(e.path, Val(path))))

\* the bytes that the base64 texts the blobs carry stand for
KnownPlain(text) ==
    CASE text = <<"Q", "U", "J", "D">> -> <<65, 66, 67>>
      [] text = <<"Q", "Q", "=", "=", "\n">> -> <<65>>

\* the (content, name) pairs due for the first n entries fetched, given the
\* bodies their GETs were answered with
RECURSIVE PairsDue(_, _, _)
PairsDue(entries, bodies, n) ==
    IF n = 0 THEN <<>>
    ELSE PairsDue(entries, bodies, n - 1) \o
         ( IF "content" \in DOMAIN bodies[n]
           THEN <<[content |-> KnownPlain(bodies[n].content), name |-> entries[n].path]>>
           ELSE <<>> )

\* C1: a non-success status is the last response of the call: the call raises
\* an HTTPError carrying that status, returns nothing, and sends no request
\* after the one so answered; when it is the branch lookup that fails, the
\* branch GET is the only request sent.
C1_HttpErrorAborts ==
    \A i \in 1..Len(resps) :
        NonSuccess(resps[i]) =>
            /\ i = Len(resps)
            /\ Len(log) = i
            /\ CallEnded
            /\ outcome = Raised("HTTPError", resps[i])
            /\ (i = 1 => log = <<BranchUrl(args.branch)>>)

C1_Witness ==
    /\ rpc = "raised"
    /\ resps = <<404>>
    /\ outcome = Raised("HTTPError", 404)
    /\ log = <<BranchUrl("main")>>

\* a body with content in an encoding other than base64
BadEncoding(j) == "content" \in DOMAIN j /\ j.encoding # "base64"

\* C2: a blob body with content in an encoding other than base64 is the last
\* one processed: the call raises RuntimeError there, no blob GET follows it,
\* and self._contents holds what the files before it added and nothing more.
C2_BadEncodingStops ==
    \A i \in 1..Len(blobs) :
        BadEncoding(blobs[i]) =>
            /\ i = Len(blobs)
            /\ CallEnded
            /\ outcome = Raised("RuntimeError", 0)
            /\ Len(log) = 2 + i
            /\ contents = entry \o PairsDue(RetainedBlobs(tree, args.path), blobs, i - 1)

C2_Witness ==
    /\ rpc = "raised"
    /\ outcome.kind = "RuntimeError"
    /\ Len(blobs) = 1
    /\ blobs[1].encoding = "none"
    /\ Len(RetainedBlobs(tree, args.path)) = 2
    /\ Len(log) = 3
    /\ contents = <<>>

\* C7: a call that returns has sent the branch GET, then the tree GET for the
\* sha the branch gave, then one blob GET for each listing entry of kind blob
\* whose path starts with the path argument (if any), in listing order, and
\* nothing else: no entry of kind tree or outside the path is fetched, and no
\* request is sent again for an entry already fetched.
C7_RequestOrder ==
    rpc = "returned" =>
        LET due == RetainedBlobs(tree, args.path) IN
        /\ Len(log) = 2 + Len(due)
        /\ log[1] = BranchUrl(args.branch)
        /\ log[2].kind = "tree" /\ log[2].target = sha
        /\ \A i \in 1..Len(due) : log[2 + i] = BlobUrl(due[i].url)
        /\ Len(resps) = Len(log)

C7_Witness ==
    /\ rpc = "returned"
    /\ ~IsNone(args.path)
    /\ Len(tree) = 2
    /\ tree[1].type = "blob" /\ ~StartsWith(tree[1].path, Val(args.path))
    /\ tree[2].type = "blob"
    /\ Len(log) = 3
    /\ log[3] = BlobUrl(tree[2].url)

\* C8: the first call on a fresh reader, when it returns, returns one
\* (content, name) pair for each fetched entry whose body has content, in
\* listing order, with the entry's path as name and the decoded bytes as
\* content; a body without content adds nothing and raises nothing.
C8_ReturnedPairs ==
    (rpc = "returned" /\ ncalls = 1) =>
        LET due == RetainedBlobs(tree, args.path) IN
        /\ Len(blobs) = Len(due)
        /\ outcome = Returned(PairsDue(due, blobs, Len(due)))
        /\ get_content = outcome.value

C8_Witness ==
    /\ rpc = "returned"
    /\ ncalls = 1
    /\ Len(blobs) = 2
    /\ "content" \notin DOMAIN blobs[1]
    /\ outcome.value = <<[content |-> <<65, 66, 67>>, name |-> <<"a", "/", "x">>]>>

\* whether a request carries the query parameter
HasParam(req, name) == \E i \in 1..Len(req.query) : req.query[i].name = name

\* C9: the tree GET carries a recursive parameter only when the recursive
\* argument is true.
C9_RecursiveOnlyWhenTrue ==
    \A i \in 1..Len(log) :
        (log[i].kind = "tree" /\ HasParam(log[i], "recursive")) =>
            args.recursive = Some(TRUE)

\* C10: self._contents only grows by appending, and a call that returns
\* returns a sequence that extends what the previous returning call returned.
C10_ContentsGrowOnly ==
    [][ /\ IsPrefix(contents, contents')
        /\ (rpc' = "returned" => IsPrefix(lastRet', outcome'.value)) ]_vars

C10_Witness ==
    /\ rpc = "raised"
    /\ ncalls = 2
    /\ Len(lastRet) = 1
    /\ Len(entry) = 1
    /\ Len(get_content) = 2

-----------------------------------------------------------------------------
(* Properties of github_vars_facts.main, checked under SpecFacts *)

\* the fetched names whose extension is .yaml, .yml or .json in any case
FactFileNames ==
    { <<"a", ".", "y", "a", "m", "l">>,
      <<"b", ".", "J", "S", "O", "N">>,
      <<"d", "/", "c", ".", "y", "m", "l">>,
      <<"e", ".", "j", "s", "o", "n">>,
      <<"g", ".", "y", "a", "m", "l">> }

\* file i of c is a fact file whose document defines top-level key key
Defines(i, key) ==
    /\ c[i].name \in FactFileNames
    /\ \E m \in 1..Len(c[i].content.items) : c[i].content.items[m].k = key

\* the value the document of file i gives key
ValueIn(i, key) ==
    LET items == c[i].content.items
    IN items[CHOOSE m \in 1..Len(items) : items[m].k = key].v

\* C3: once files 1..n of c are merged, data has exactly the top-level keys
\* that a fact file among them defines, each with the whole value the last
\* such file gives it; other files add nothing.
C3_LastFileWins ==
    fpc \in {"merge", "exit"} =>
        LET n == fi - 1 IN
        /\ Keys(data) = {key \in UNION {Keys(c[i].content.items) : i \in 1..n} :
                            \E i \in 1..n : Defines(i, key)}
        /\ \A key \in Keys(data) :
            LET last == CHOOSE i \in 1..n :
                            Defines(i, key) /\ \A m \in (i + 1)..n : ~Defines(m, key)
            IN Lookup(data, key) = ValueIn(last, key)

C3_Witness ==
    /\ fpc = "exit"
    /\ Len(c) = 2
    /\ c[1].name = <<"a", ".", "y", "a", "m", "l">>
    /\ c[2].name = <<"b", ".", "J", "S", "O", "N">>
    /\ data = <<Item(<<"x">>, Scalar(2)), Item(<<"y">>, Scalar(3))>>

\* the (pattern, key) pairs of the model for which the pattern matches at the
\* start of the key
MatchingPairs ==
    { << <<"^", "y">>, <<"y">> >>,
      << <<"x">>, <<"x">> >>,
      << <<"x">>, <<"x", "y">> >>,
      << <<".", "y">>, <<"x", "y">> >>,
      << <<"y">>, <<"y">> >> }

Kept(key) == \E i \in 1..Len(filters) : <<filters[i], key>> \in MatchingPairs

SeqToSet(q) == {q[i] : i \in 1..Len(q)}

\* C4: at exit the kept keys (ansible_facts) and filtered_keys split the keys
\* of data: with filters, a key is kept, with its value, exactly when some
\* filter matches at its start, and filtered_keys is the other keys in the
\* order of data, each once; without filters all of data is kept and
\* filtered_keys is empty.
C4_FilterPartition ==
    fpc = "exit" =>
        /\ Keys(facts) \cap SeqToSet(filtered_keys) = {}
        /\ Keys(facts) \cup SeqToSet(filtered_keys) = Keys(data)
        /\ \A key \in Keys(facts) : Lookup(facts, key) = Lookup(data, key)
        /\ IF filters = <<>>
           THEN facts = data /\ filtered_keys = <<>>
           ELSE /\ Keys(facts) = {key \in Keys(data) : Kept(key)}
                /\ filtered_keys = SelectSeq(KeyList(data), LAMBDA key : ~Kept(key))

C4_Witness ==
    /\ fpc = "exit"
    /\ filters = << <<"^", "y">> >>
    /\ data = <<Item(<<"x">>, Scalar(2)), Item(<<"y">>, Scalar(3))>>
    /\ facts = <<Item(<<"y">>, Scalar(3))>>
    /\ filtered_keys = << <<"x">> >>

-----------------------------------------------------------------------------
(* Properties of github_read_files_given_ext.main, checked under SpecExt *)

\* the module has finished, one way or the other
ExtEnded == epc \in {"exit", "failed"}

Wanted(i) == InSeq(lower(splitext_ext(ec[i].name)), params.extensions)

-----------------------------------------------------------------------------
(* Properties of the nsls2network_find filter, checked under SpecNet *)

\* the addresses of a block, as a range
BlockLow(cidr) == AddrInt(cidr.addr)
BlockHigh(cidr) == AddrInt(cidr.addr) + 2 ^ (32 - cidr.plen) - 1
Holds(cidr, a) == BlockLow(cidr) <= AddrInt(a) /\ AddrInt(a) <= BlockHigh(cidr)

\* the (net, subnet) positions of the table
Positions(t) ==
    {p \in (1..Len(t)) \X (1..Cardinality(SubnetNames)) : p[2] <= Len(t[p[1]].subnets)}
BlockAt(t, p) == t[p[1]].subnets[p[2]].cidr

\* no two subnets of the table share an address
Disjoint(t) ==
    \A p, q \in Positions(t) :
        p # q => (BlockHigh(BlockAt(t, p)) < BlockLow(BlockAt(t, q))
                  \/ BlockHigh(BlockAt(t, q)) < BlockLow(BlockAt(t, p)))

\* C6: on a table of disjoint subnets and a well-formed address, the filter
\* without a mode returns the {net, subnet} of the subnet holding the
\* address, with mode net its net, with mode subnet its subnet, and None in
\* all three cases when no subnet holds the address.
C6_FindProjection ==
    (npc = "called" /\ Disjoint(table) /\ WellFormed(query.searchnet)
       /\ query.mode \in {None, Some("net"), Some("subnet")}) =>
        LET holders == {p \in Positions(table) : Holds(BlockAt(table, p), query.searchnet)}
        IN IF holders = {}
           THEN res = PyNone
           ELSE LET p == CHOOSE p \in holders : TRUE
                    net == table[p[1]].net
                    subnet == table[p[1]].subnets[p[2]].subnet
                IN /\ holders = {p}
                   /\ res = CASE query.mode = None -> PyDict(net, subnet)
                              [] query.mode = Some("net") -> PyStrVal(net)
                              [] query.mode = Some("subnet") -> PyStrVal(subnet)

C6_Witness ==
    /\ npc = "called"
    /\ Disjoint(table)
    /\ Len(table) = 2
    /\ Len(table[1].subnets) = 1
    /\ Len(table[2].subnets) = 2
    /\ WellFormed(query.searchnet)
    /\ Holds(table[2].subnets[2].cidr, query.searchnet)
    /\ query.mode = Some("net")
    /\ res = PyStrVal(table[2].net)

====
